---------------------------- MODULE Spec2Model ----------------------------
(***************************************************************************)
(* A model of notctyparser/bigcty.py: the BigCty dataset, its import of a  *)
(* CTY.DAT text (import_dat), its persisted form (load, dump) and its      *)
(* formatted_version accessor.                                             *)
(*                                                                         *)
(* Python strings are sequences of one-character strings, so that strip,   *)
(* split, the regular expressions, int() and float() are computed          *)
(* character by character as the interpreter computes them.  A Python      *)
(* float is the integer number of tenths it holds (the texts drawn below   *)
(* carry at most one fractional digit).                                    *)
(***************************************************************************)
EXTENDS Integers, Sequences, FiniteSets, TLC

\* ------------------------------------------------------------ characters

Upper == {"A","B","C","D","E","F","G","H","I","J","K","L","M",
          "N","O","P","Q","R","S","T","U","V","W","X","Y","Z"}

Lower == {"a","b","c","d","e","f","g","h","i","j","k","l","m",
          "n","o","p","q","r","s","t","u","v","w","x","y","z"}

Digits == {"0","1","2","3","4","5","6","7","8","9"}

Whitespace == {" ", "\t", "\n", "\r", "\f"}

DigitSeq == <<"0","1","2","3","4","5","6","7","8","9">>

\* str.isalpha, str.isspace on one character
isalpha(c) == c \in Upper \cup Lower

\* isspace with a slip: whatever is no letter counts as white space
isspace_nonalpha(c) == c \notin Upper \cup Lower

isspace(c) == c \in Whitespace

DigitVal(c) == (CHOOSE i \in 1..10 : DigitSeq[i] = c) - 1

\* the character class [a-zA-Z0-9/] of regex_dat's prefix group
PrefixChars == Upper \cup Lower \cup Digits \cup {"/"}

\* the character class \w of regex_dat's continent group
WordChars == Upper \cup Lower \cup Digits \cup {"_"}

\* F(v), with v evaluated once however often F uses it
With(v, F(_)) == CHOOSE r \in {F(x) : x \in {v}} : TRUE

\* ------------------------------------------------------ string functions

RECURSIVE lstrip(_, _)
lstrip(s, cs) ==
    IF s # <<>> /\ Head(s) \in cs THEN lstrip(Tail(s), cs) ELSE s

RECURSIVE rstrip(_, _)
rstrip(s, cs) ==
    IF s # <<>> /\ s[Len(s)] \in cs
    THEN rstrip(SubSeq(s, 1, Len(s) - 1), cs) ELSE s

strip(s, cs) == rstrip(lstrip(s, cs), cs)

RECURSIVE split(_, _)
split(s, sep) ==
    IF \E i \in 1..Len(s) : s[i] = sep
    THEN LET i == CHOOSE k \in 1..Len(s) :
                     s[k] = sep /\ \A j \in 1..(k - 1) : s[j] # sep
         IN  <<SubSeq(s, 1, i - 1)>> \o split(SubSeq(s, i + 1, Len(s)), sep)
    ELSE <<s>>

startswith(s, c) == s # <<>> /\ s[1] = c

RECURSIVE Flatten(_)
Flatten(ss) == IF ss = <<>> THEN <<>> ELSE Head(ss) \o Flatten(Tail(ss))

\* the first index from i on whose character is not in cs (Len(s)+1 if none)
RECURSIVE Span(_, _, _)
Span(s, i, cs) ==
    IF i <= Len(s) /\ s[i] \in cs THEN Span(s, i + 1, cs) ELSE i

RECURSIVE DecVal(_)
DecVal(s) ==
    IF s = <<>> THEN 0
    ELSE 10 * DecVal(SubSeq(s, 1, Len(s) - 1)) + DigitVal(s[Len(s)])

\* ------------------------------------------------------- int() and float()

Signs == {"+", "-"}

Unsigned(s) == IF s # <<>> /\ s[1] \in Signs THEN Tail(s) ELSE s

SignOf(s) == IF s # <<>> /\ s[1] = "-" THEN -1 ELSE 1

\* int(s) of a stripped string: [ok, v]; ok = FALSE is ValueError
int(s) ==
    LET u == Unsigned(s)
    IN  IF u # <<>> /\ Span(u, 1, Digits) = Len(u) + 1
        THEN [ok |-> TRUE, v |-> SignOf(s) * DecVal(u)]
        ELSE [ok |-> FALSE, v |-> 0]

\* float(s) of a stripped string, in tenths: sign, digits, an optional point
\* and digits.  (Exponents, inf and nan are not among the texts drawn.)
float(s) ==
    LET u  == Unsigned(s)
        e1 == Span(u, 1, Digits)
        ip == SubSeq(u, 1, e1 - 1)
        fr == SubSeq(u, e1 + 1, Len(u))
        wellformed ==
            /\ u # <<>>
            /\ \/ e1 = Len(u) + 1 /\ ip # <<>>
               \/ /\ e1 <= Len(u) /\ u[e1] = "."
                  /\ Span(u, e1 + 1, Digits) = Len(u) + 1
                  /\ (ip # <<>> \/ fr # <<>>)
        tenth == IF e1 <= Len(u) /\ fr # <<>> THEN DigitVal(fr[1]) ELSE 0
    IN  IF wellformed
        THEN [ok |-> TRUE, v |-> SignOf(s) * (10 * DecVal(ip) + tenth)]
        ELSE [ok |-> FALSE, v |-> 0]

\* ---------------------------------------------------- regular expressions

\* regex_version_entry, VER(\d{8}), searched in s: group 1 of the leftmost
\* match, or <<>> for no match
VersionAt(s, i) ==
    /\ i + 10 <= Len(s)
    /\ s[i] = "V" /\ s[i + 1] = "E" /\ s[i + 2] = "R"
    /\ \A k \in (i + 3)..(i + 10) : s[k] \in Digits

regex_version_entry(s) ==
    IF \E i \in 1..Len(s) : VersionAt(s, i)
    THEN LET i == CHOOSE k \in 1..Len(s) :
                     VersionAt(s, k) /\ \A j \in 1..(k - 1) : ~ VersionAt(s, j)
         IN  SubSeq(s, i + 3, i + 10)
    ELSE <<>>

\* [+-]?\d+(?:\.\d+)? at i, followed by the literal term: the index of term,
\* or 0 when there is no match.  wild is the long group, whose '.' is not
\* escaped and stands for any character but a newline.
NumEnd(s, i, term, wild) ==
    LET j0 == IF i <= Len(s) /\ s[i] \in Signs THEN i + 1 ELSE i
        j1 == Span(s, j0, Digits)
        pt == j1 <= Len(s) /\ (IF wild THEN s[j1] # "\n" ELSE s[j1] = ".")
        j2 == IF pt THEN Span(s, j1 + 1, Digits) ELSE 0
    IN  IF j1 = j0 THEN 0
        ELSE IF pt /\ j2 > j1 + 1 /\ j2 <= Len(s) /\ s[j2] = term THEN j2
        ELSE IF j1 <= Len(s) /\ s[j1] = term THEN j1
        ELSE 0

\* an optional group  open cs+ close  at p: its text (<<>> when the group
\* does not take part in the match) and where the match goes on
Bracket(s, p, open, close, cs) ==
    LET e == Span(s, p + 1, cs)
    IN  IF p <= Len(s) /\ s[p] = open /\ e > p + 1 /\ e <= Len(s) /\ s[e] = close
        THEN [txt |-> SubSeq(s, p + 1, e - 1), next |-> e + 1]
        ELSE [txt |-> <<>>, next |-> p]

LatLong(s, p) ==
    LET e1 == IF p <= Len(s) /\ s[p] = "<" THEN NumEnd(s, p + 1, "/", FALSE) ELSE 0
        e2 == IF e1 > 0 THEN NumEnd(s, e1 + 1, ">", TRUE) ELSE 0
    IN  IF e2 > 0
        THEN [txt |-> SubSeq(s, p, e2), lat |-> SubSeq(s, p + 1, e1 - 1),
              long |-> SubSeq(s, e1 + 1, e2 - 1), next |-> e2 + 1]
        ELSE [txt |-> <<>>, lat |-> <<>>, long |-> <<>>, next |-> p]

Tilde(s, p) ==
    LET e == IF p <= Len(s) /\ s[p] = "~" THEN NumEnd(s, p + 1, "~", FALSE) ELSE 0
    IN  IF e > 0
        THEN [txt |-> SubSeq(s, p + 1, e - 1), next |-> e + 1]
        ELSE [txt |-> <<>>, next |-> p]

\* where the prefix group starts when regex_dat matches at i, else 0
PrefixStart(s, i) ==
    IF s[i] = "=" /\ i + 1 <= Len(s) /\ s[i + 1] \in PrefixChars THEN i + 1
    ELSE IF s[i] \in PrefixChars THEN i
    ELSE 0

NoMatch ==
    [matched |-> FALSE, prefix |-> <<>>, cq |-> <<>>, itu |-> <<>>,
     latlong |-> <<>>, lat |-> <<>>, long |-> <<>>, continent |-> <<>>,
     tz |-> <<>>]

\* re.search(regex_dat, item): the leftmost match.  Every group after the
\* prefix is optional and the pattern is not anchored at the end, so a match
\* at i never fails once the prefix has matched; a group that is None is <<>>.
regex_dat(item) ==
    IF \E i \in 1..Len(item) : PrefixStart(item, i) > 0
    THEN With(CHOOSE k \in 1..Len(item) :
                  /\ PrefixStart(item, k) > 0
                  /\ \A j \in 1..(k - 1) : PrefixStart(item, j) = 0,
         LAMBDA i :
         With(PrefixStart(item, i), LAMBDA q :
         With(Span(item, q, PrefixChars), LAMBDA pe :
         With(Bracket(item, pe, "(", ")", Digits), LAMBDA g1 :
         With(Bracket(item, g1.next, "[", "]", Digits), LAMBDA g2 :
         With(LatLong(item, g2.next), LAMBDA g3 :
         With(Bracket(item, g3.next, "{", "}", WordChars), LAMBDA g4 :
         With(Tilde(item, g4.next), LAMBDA g5 :
             [matched |-> TRUE, prefix |-> SubSeq(item, q, pe - 1),
              cq |-> g1.txt, itu |-> g2.txt, latlong |-> g3.txt,
              lat |-> g3.lat, long |-> g3.long, continent |-> g4.txt,
              tz |-> g5.txt]))))))))
    ELSE NoMatch

\* ------------------------------------------------------------ Python values

\* a str value and None (self._version is either)
Str(s) == [kind |-> "str", s |-> s]

None == [kind |-> "None", s |-> <<>>]

\* a dict is a function from its keys; cty_dict = {} is the empty function
EmptyDict == <<>>

DictSet(d, k, v) ==
    [x \in DOMAIN d \cup {k} |-> IF x = k THEN v ELSE d[x]]

DictDel(d, k) == [x \in DOMAIN d \ {k} |-> d[x]]

NOT_DXCC == <<" ", "(", "n", "o", "t", " ", "D", "X", "C", "C", ")">>

KEY_VERSION == <<"v", "e", "r", "s", "i", "o", "n">>

\* -------------------------------------------------- import_dat, line by line

\* file.readline().rstrip("\r").strip(":")
CleanLine(raw) == strip(rstrip(raw, {"\r"}), {":"})

\* [x.strip() for x in line.split(":")]
Segments(line) ==
    LET raw == split(line, ":")
    IN  [i \in 1..Len(raw) |-> strip(raw[i], Whitespace)]

NoRecord ==
    [entity |-> <<>>, cq |-> 0, itu |-> 0, continent |-> <<>>, lat |-> 0,
     long |-> 0, tz |-> 0, len |-> 0, primary_pfx |-> <<>>,
     exact_match |-> FALSE]

\* the body of "if line[0].isalpha()": the key and the record of a header
\* line, or the exception it raises.  segments[7] is segments[8] here.
HeaderEntry(line) ==
    With(Segments(line), LAMBDA segments :
        IF Len(segments) < 8 \/ segments[8] = <<>>
        THEN [exc |-> "IndexError", key |-> <<>>, rec |-> NoRecord]
        ELSE
        LET star   == segments[8][1] = "*"
            pfx    == IF star THEN Tail(segments[8]) ELSE segments[8]
            entity == IF star THEN segments[1] \o NOT_DXCC ELSE segments[1]
            cq     == int(segments[2])
            itu    == int(segments[3])
            lat    == float(segments[5])
            long   == float(segments[6])
            tz     == float(segments[7])
        IN  IF ~ (cq.ok /\ itu.ok /\ lat.ok /\ long.ok /\ tz.ok)
            THEN [exc |-> "ValueError", key |-> <<>>, rec |-> NoRecord]
            ELSE [exc |-> "None", key |-> pfx,
                  rec |-> [entity |-> entity, cq |-> cq.v, itu |-> itu.v,
                           continent |-> segments[4], lat |-> lat.v,
                           long |-> long.v, tz |-> (-1) * tz.v,
                           len |-> Len(pfx), primary_pfx |-> pfx,
                           exact_match |-> FALSE]])

\* line.strip().rstrip(";").rstrip(",").split(",")
Overrides(line) ==
    split(rstrip(rstrip(strip(line, Whitespace), {";"}), {","}), ",")

\* ApplyMatch with a slip: the tz group is stored as written, not negated
ApplyMatch_tz(data, match, item) ==
    LET lat  == float(match.lat)
        long == float(match.long)
        tz   == float(match.tz)
        d1 == IF match.itu # <<>>
              THEN [data EXCEPT !.itu = int(match.itu).v] ELSE data
        d2 == IF match.cq # <<>>
              THEN [d1 EXCEPT !.cq = int(match.cq).v] ELSE d1
        d3 == IF match.latlong # <<>>
              THEN [d2 EXCEPT !.lat = lat.v, !.long = long.v] ELSE d2
        d4 == IF match.continent # <<>>
              THEN [d3 EXCEPT !.continent = match.continent] ELSE d3
        d5 == IF match.tz # <<>>
              THEN [d4 EXCEPT !.tz = tz.v] ELSE d4
        d6 == IF startswith(item, "=")
              THEN [d5 EXCEPT !.exact_match = TRUE] ELSE d5
    IN  [ok  |-> (match.latlong = <<>> \/ (lat.ok /\ long.ok))
                 /\ (match.tz = <<>> \/ tz.ok),
         rec |-> d6]

\* the "if match.group(...)" assignments on the copy of the primary's record;
\* float() of the long group can fail (ok = FALSE is ValueError)
ApplyMatch(data, match, item) ==
    LET lat  == float(match.lat)
        long == float(match.long)
        tz   == float(match.tz)
        d1 == IF match.itu # <<>>
              THEN [data EXCEPT !.itu = int(match.itu).v] ELSE data
        d2 == IF match.cq # <<>>
              THEN [d1 EXCEPT !.cq = int(match.cq).v] ELSE d1
        d3 == IF match.latlong # <<>>
              THEN [d2 EXCEPT !.lat = lat.v, !.long = long.v] ELSE d2
        d4 == IF match.continent # <<>>
              THEN [d3 EXCEPT !.continent = match.continent] ELSE d3
        d5 == IF match.tz # <<>>
              THEN [d4 EXCEPT !.tz = (-1) * tz.v] ELSE d4
        d6 == IF startswith(item, "=")
              THEN [d5 EXCEPT !.exact_match = TRUE] ELSE d5
    IN  [ok  |-> (match.latlong = <<>> \/ (lat.ok /\ long.ok))
                 /\ (match.tz = <<>> \/ tz.ok),
         rec |-> d6]

\* OverrideStep with a slip: the derived record names its own prefix as the
\* primary prefix
OverrideStep_own(dict, prev, item) ==
    IF item \in DOMAIN dict
    THEN [exc |-> "None", dict |-> dict]
    ELSE IF prev \notin DOMAIN dict
    THEN [exc |-> "KeyError", dict |-> dict]
    ELSE With(regex_dat(item), LAMBDA match :
         IF ~ match.matched THEN [exc |-> "None", dict |-> dict]
         ELSE With(ApplyMatch(dict[prev], match, item), LAMBDA res :
              IF ~ res.ok THEN [exc |-> "ValueError", dict |-> dict]
              ELSE [exc |-> "None",
                    dict |-> DictSet(dict, match.prefix,
                                     [res.rec EXCEPT
                                         !.primary_pfx = match.prefix,
                                         !.len = Len(match.prefix)])]))

\* one pass of "for item in overrides": the dict afterwards, or the exception
OverrideStep(dict, prev, item) ==
    IF item \in DOMAIN dict
    THEN [exc |-> "None", dict |-> dict]
    ELSE IF prev \notin DOMAIN dict
    THEN [exc |-> "KeyError", dict |-> dict]
    ELSE With(regex_dat(item), LAMBDA match :
         IF ~ match.matched THEN [exc |-> "None", dict |-> dict]
         ELSE With(ApplyMatch(dict[prev], match, item), LAMBDA res :
              IF ~ res.ok THEN [exc |-> "ValueError", dict |-> dict]
              ELSE [exc |-> "None",
                    dict |-> DictSet(dict, match.prefix, res.rec)]))

\* ------------------------------------------------------- formatted_version

\* n in decimal, zero-padded to w characters
RECURSIVE Dec(_, _)
Dec(n, w) ==
    IF w = 0 THEN <<>> ELSE Dec(n \div 10, w - 1) \o <<DigitSeq[(n % 10) + 1]>>

\* %m at i : the lengths its alternatives 1[0-2] | 0[1-9] | [1-9] can take,
\* in the order the regex engine tries them
MonthLens(s, i) ==
    (IF /\ i + 1 <= Len(s)
        /\ \/ s[i] = "1" /\ s[i + 1] \in {"0", "1", "2"}
           \/ s[i] = "0" /\ s[i + 1] \in Digits \ {"0"}
     THEN <<2>> ELSE <<>>)
    \o (IF i <= Len(s) /\ s[i] \in Digits \ {"0"} THEN <<1>> ELSE <<>>)

\* %d at i : the length of the first alternative of
\* 3[01] | [12]\d | 0[1-9] | [1-9] | " "[1-9] that matches, or 0
DayLen(s, i) ==
    IF /\ i + 1 <= Len(s)
       /\ \/ s[i] = "3" /\ s[i + 1] \in {"0", "1"}
          \/ s[i] \in {"1", "2"} /\ s[i + 1] \in Digits
          \/ s[i] = "0" /\ s[i + 1] \in Digits \ {"0"}
    THEN 2
    ELSE IF i <= Len(s) /\ s[i] \in Digits \ {"0"} THEN 1
    ELSE IF i + 1 <= Len(s) /\ s[i] = " " /\ s[i + 1] \in Digits \ {"0"} THEN 2
    ELSE 0

IsLeap(y) == y % 4 = 0 /\ (y % 100 # 0 \/ y % 400 = 0)

DaysIn(y, m) ==
    IF m = 2 THEN (IF IsLeap(y) THEN 29 ELSE 28)
    ELSE IF m \in {4, 6, 9, 11} THEN 30 ELSE 31

\* datetime.strptime(s, "%Y%m%d") of a str s: the date, or ok = FALSE for
\* ValueError (no match, unconverted data, or no such day)
strptime(s) ==
    LET bad == [ok |-> FALSE, y |-> 0, m |-> 0, d |-> 0]
        ml  == IF Len(s) >= 4 /\ \A k \in 1..4 : s[k] \in Digits
               THEN SelectSeq(MonthLens(s, 5), LAMBDA n : DayLen(s, 5 + n) > 0)
               ELSE <<>>
    IN  IF ml = <<>> THEN bad
        ELSE LET mn == ml[1]
                 dn == DayLen(s, 5 + mn)
                 y  == DecVal(SubSeq(s, 1, 4))
                 m  == DecVal(SubSeq(s, 5, 4 + mn))
                 d  == DecVal(strip(SubSeq(s, 5 + mn, 4 + mn + dn), {" "}))
             IN  IF 4 + mn + dn # Len(s) \/ y = 0 \/ d > DaysIn(y, m)
                 THEN bad
                 ELSE [ok |-> TRUE, y |-> y, m |-> m, d |-> d]

SENTINEL == <<"0", "0", "0", "0", "-", "0", "0", "-", "0", "0">>

\* the property: strptime raises TypeError when handed None, and only
\* ValueError is caught
formatted_version(version) ==
    IF version.kind # "str"
    THEN [exc |-> "TypeError", val |-> <<>>]
    ELSE LET t == strptime(version.s)
         IN  IF t.ok
             THEN [exc |-> "None",
                   val |-> Dec(t.y, 4) \o <<"-">> \o Dec(t.m, 2)
                           \o <<"-">> \o Dec(t.d, 2)]
             ELSE [exc |-> "None", val |-> SENTINEL]

\* ---------------------------------------------------- the texts and the files

\* the longest CTY.DAT text drawn, in lines
MaxLines == 3

RECURSIVE NumStr(_)
NumStr(n) ==
    IF n < 10 THEN <<DigitSeq[n + 1]>>
    ELSE NumStr(n \div 10) \o <<DigitSeq[(n % 10) + 1]>>

\* a number of tenths as the file writes it: sign, digits, point, one digit
TenthsStr(t) ==
    LET a == IF t < 0 THEN -t ELSE t
    IN  (IF t < 0 THEN <<"-">> ELSE <<>>)
        \o NumStr(a \div 10) \o <<".">> \o NumStr(a % 10)

\* An override token as the format describes it: ["="] prefix ["(" cq ")"]
\* ["[" itu "]"] ["<" lat "/" long ">"] ["{" continent "}"] ["~" tz "~"].
\* A zone of -1, hasll = FALSE, continent = <<>> and hastz = FALSE say that
\* the group is absent.
TokenText(t) ==
    (IF t.eq THEN <<"=">> ELSE <<>>) \o t.prefix
    \o (IF t.cq >= 0 THEN <<"(">> \o NumStr(t.cq) \o <<")">> ELSE <<>>)
    \o (IF t.itu >= 0 THEN <<"[">> \o NumStr(t.itu) \o <<"]">> ELSE <<>>)
    \o (IF t.hasll
        THEN <<"<">> \o TenthsStr(t.lat) \o <<"/">> \o TenthsStr(t.long) \o <<">">>
        ELSE <<>>)
    \o (IF t.continent # <<>> THEN <<"{">> \o t.continent \o <<"}">> ELSE <<>>)
    \o (IF t.hastz THEN <<"~">> \o TenthsStr(t.tz) \o <<"~">> ELSE <<>>)

Plain(pfx) ==
    [eq |-> FALSE, prefix |-> pfx, cq |-> -1, itu |-> -1, hasll |-> FALSE,
     lat |-> 0, long |-> 0, continent |-> <<>>, hastz |-> FALSE, tz |-> 0]

Exact(pfx) == [Plain(pfx) EXCEPT !.eq = TRUE]

T_X    == Plain(<<"X">>)
T_XA   == Plain(<<"X", "A">>)
T_XB   == [Exact(<<"X", "B">>) EXCEPT !.cq = 3]
T_EX   == Exact(<<"X">>)
T_XAg  == [Plain(<<"X", "A">>) EXCEPT !.cq = 4, !.itu = 5, !.hasll = TRUE,
              !.lat = 15, !.long = -20, !.continent = <<"E">>,
              !.hastz = TRUE, !.tz = 50]
T_EXA  == [Exact(<<"X", "A">>) EXCEPT !.itu = 6]
T_VER  == Exact(<<"V", "E", "R", "2", "0", "2", "3", "0", "6", "1", "5">>)
T_KEY  == Plain(KEY_VERSION)

\* the well-formed override tokens of the texts
Tokens == {T_X, T_XA, T_XB, T_EX, T_XAg, T_EXA, T_VER, T_KEY}

\* tokens the format does not describe: no prefix at all, and a long group
\* the pattern accepts but float() does not
Junk == <<"-">>

BadLong == <<"X", "C", "<", "1", "/", "2", "-", "3", ">">>

\* a continuation line: leading blanks, the tokens, the line's end
RECURSIVE Join(_)
Join(ts) ==
    IF Len(ts) = 1 THEN ts[1] ELSE ts[1] \o <<",">> \o Join(Tail(ts))

Continuation(toks, tail) == <<" ", " ">> \o Join(toks) \o tail \o <<"\n">>

L_H1 == <<"T",":","1",":","2",":","N",":","1",".","5",":","2",":",
          "-","5",":","X",":","\n">>

L_H2 == <<"U",":"," "," ","3",":"," ","4",":"," ","E",":"," ","5",":",
          " ","6",":"," ","7",".","5",":"," ","*","Y",":","\n">>

L_HB == <<"T",":","x",":","2",":","N",":","1",":","2",":","-","5",":",
          "X",":","\n">>

\* a header line with too few fields
L_HS == <<"T", ":", "1", "\n">>

L_CA == Continuation(<<TokenText(T_X), TokenText(T_XA), TokenText(T_XB)>>, <<";">>)

L_CB == Continuation(<<TokenText(T_EX), TokenText(T_XAg), TokenText(T_EXA)>>, <<",">>)

L_CV == Continuation(<<Junk, TokenText(T_VER), TokenText(T_KEY)>>, <<";">>)

L_CW == Continuation(<<BadLong>>, <<";">>)

L_BL == <<"\n">>

L_OT == <<"#", "\n">>

Lines == {L_H1, L_H2, L_HB, L_HS, L_CA, L_CB, L_CV, L_CW, L_BL, L_OT}

\* every text of at most MaxLines lines
Texts == UNION {[1..n -> Lines] : n \in 0..MaxLines}

R_OLD ==
    [entity |-> <<"O">>, cq |-> 9, itu |-> 8, continent |-> <<"A">>,
     lat |-> 70, long |-> 60, tz |-> -10, len |-> 1,
     primary_pfx |-> <<"X">>, exact_match |-> FALSE]

V_OLD == <<"2", "0", "2", "3", "0", "1", "0", "1">>

V_BAD == <<"2", "0", "2", "3", "1", "3", "4", "5">>

\* the cty.json files found on disk: without a version field, with a valid
\* stamp, and with a stamp that is no date
Files ==
    { DictSet(EmptyDict, <<"X">>, R_OLD),
      DictSet(DictSet(EmptyDict, <<"X">>, R_OLD), KEY_VERSION, Str(V_OLD)),
      DictSet(EmptyDict, KEY_VERSION, Str(V_BAD)) }

\* ------------------------------------------------------------------ state

VARIABLES
    _data,      \* self._data
    _version,   \* self._version
    cty_json,   \* the cty.json file on disk (a JSON object)
    cty_dat,    \* the CTY.DAT file on disk (its lines)
    pc,         \* "idle", or where import_dat stands: "scan", "items"
    pos,        \* import_dat: lines of the file read so far
    cty_dict,   \* import_dat: cty_dict
    last,       \* import_dat: last
    overrides,  \* import_dat: the items of the for loop still to come
    ret,        \* how the last call ended
    entry       \* _data and _version when the last import_dat was entered

vars == <<_data, _version, cty_json, cty_dat, pc, pos, cty_dict, last,
          overrides, ret, entry>>

Ret(op, exc, val) == [op |-> op, exc |-> exc, val |-> val]

NoEntry == [data |-> EmptyDict, version |-> Str(<<>>)]

\* __init__ without a file_path
Init ==
    /\ _data = EmptyDict
    /\ _version = Str(<<>>)
    /\ cty_json \in Files
    /\ cty_dat \in Texts
    /\ pc = "idle"
    /\ pos = 0
    /\ cty_dict = EmptyDict
    /\ last = <<>>
    /\ overrides = <<>>
    /\ ret = Ret("__init__", "None", <<>>)
    /\ entry = NoEntry

scan_vars == <<pos, cty_dict, last, overrides>>

\* json.load(file); ctyjson.pop("version", None); self._data = ctyjson
Load ==
    /\ pc = "idle"
    /\ _version' = IF KEY_VERSION \in DOMAIN cty_json
                   THEN cty_json[KEY_VERSION] ELSE None
    /\ _data' = DictDel(cty_json, KEY_VERSION)
    /\ ret' = Ret("load", "None", <<>>)
    /\ entry' = NoEntry
    /\ UNCHANGED <<cty_json, cty_dat, pc, scan_vars>>

\* datadump = self._data.copy(); datadump["version"] = self._version
Dump ==
    /\ pc = "idle"
    /\ cty_json' = DictSet(_data, KEY_VERSION, _version)
    /\ ret' = Ret("dump", "None", <<>>)
    /\ entry' = NoEntry
    /\ UNCHANGED <<_data, _version, cty_dat, pc, scan_vars>>

FormattedVersion ==
    /\ pc = "idle"
    /\ \E r \in {formatted_version(_version)} :
           ret' = Ret("formatted_version", r.exc, r.val)
    /\ entry' = NoEntry
    /\ UNCHANGED <<_data, _version, cty_json, cty_dat, pc, scan_vars>>

\* import_dat up to the loop: the version is read off the whole text and
\* stored on the instance, the file is rewound
ImportDat ==
    /\ pc = "idle"
    /\ entry' = [data |-> _data, version |-> _version]
    /\ _version' = Str(regex_version_entry(Flatten(cty_dat)))
    /\ cty_dict' = EmptyDict
    /\ last' = <<>>
    /\ pos' = 0
    /\ overrides' = <<>>
    /\ pc' = "scan"
    /\ ret' = Ret("import_dat", "running", <<>>)
    /\ UNCHANGED <<_data, cty_json, cty_dat>>

\* what readline() and the clean-up give next ("" at the end of the file)
NextLine == IF pos < Len(cty_dat) THEN CleanLine(cty_dat[pos + 1]) ELSE <<>>

\* an exception leaves import_dat: its locals are gone
Raise(exc) ==
    /\ pc' = "idle"
    /\ ret' = Ret("import_dat", exc, <<>>)
    /\ pos' = 0
    /\ cty_dict' = EmptyDict
    /\ last' = <<>>
    /\ overrides' = <<>>
    /\ UNCHANGED <<_data, _version, cty_json, cty_dat, entry>>

\* "if not line: break", then self._data = cty_dict
ReadEnd ==
    /\ pc = "scan"
    /\ NextLine = <<>>
    /\ _data' = cty_dict
    /\ pc' = "idle"
    /\ ret' = Ret("import_dat", "None", <<>>)
    /\ pos' = 0
    /\ cty_dict' = EmptyDict
    /\ last' = <<>>
    /\ UNCHANGED <<_version, cty_json, cty_dat, overrides, entry>>

ReadHeader ==
    /\ pc = "scan"
    /\ NextLine # <<>>
    /\ isalpha(NextLine[1])
    /\ \E h \in {HeaderEntry(NextLine)} :
           /\ h.exc = "None"
           /\ cty_dict' = DictSet(cty_dict, h.key, h.rec)
           /\ last' = h.key
    /\ pos' = pos + 1
    /\ UNCHANGED <<_data, _version, cty_json, cty_dat, pc, overrides, ret, entry>>

ReadHeaderRaise ==
    /\ pc = "scan"
    /\ NextLine # <<>>
    /\ isalpha(NextLine[1])
    /\ \E h \in {HeaderEntry(NextLine)} :
           /\ h.exc # "None"
           /\ Raise(h.exc)

ReadContinuation ==
    /\ pc = "scan"
    /\ NextLine # <<>>
    /\ ~ isalpha(NextLine[1])
    /\ isspace(NextLine[1])
    /\ overrides' = Overrides(NextLine)
    /\ pc' = "items"
    /\ pos' = pos + 1
    /\ UNCHANGED <<_data, _version, cty_json, cty_dat, cty_dict, last, ret, entry>>

\* neither branch of the if/elif is taken
ReadOther ==
    /\ pc = "scan"
    /\ NextLine # <<>>
    /\ ~ isalpha(NextLine[1])
    /\ ~ isspace(NextLine[1])
    /\ pos' = pos + 1
    /\ UNCHANGED <<_data, _version, cty_json, cty_dat, pc, cty_dict, last,
                   overrides, ret, entry>>

\* one pass of the for loop; after the last item the while loop goes on
OverrideItem ==
    /\ pc = "items"
    /\ \E r \in {OverrideStep(cty_dict, last, Head(overrides))} :
           /\ r.exc = "None"
           /\ cty_dict' = r.dict
    /\ overrides' = Tail(overrides)
    /\ pc' = IF Tail(overrides) = <<>> THEN "scan" ELSE "items"
    /\ UNCHANGED <<_data, _version, cty_json, cty_dat, pos, last, ret, entry>>

OverrideItemRaise ==
    /\ pc = "items"
    /\ \E r \in {OverrideStep(cty_dict, last, Head(overrides))} :
           /\ r.exc # "None"
           /\ Raise(r.exc)

Next ==
    \/ Load
    \/ Dump
    \/ FormattedVersion
    \/ ImportDat
    \/ ReadEnd
    \/ ReadHeader
    \/ ReadHeaderRaise
    \/ ReadContinuation
    \/ ReadOther
    \/ OverrideItem
    \/ OverrideItemRaise

Spec == Init /\ [][Next]_vars

\* ----------------------------------------------------------------- claims

\* a pass of the for loop that did not raise
ItemPass == pc = "items" /\ pc' # "idle"

\* the token of the format that the item of the coming pass is
IsToken(t) == pc = "items" /\ Head(overrides) = TokenText(t)

\* the code's own test for taking an item up
TakenUp == Head(overrides) \notin DOMAIN cty_dict

\* C1: first definition wins: an override token whose prefix is already a key
\* of the mapping is skipped, and the record under that key is left as it is.
C1_FirstDefinitionWins ==
    [][\A t \in Tokens :
          (ItemPass /\ IsToken(t) /\ t.prefix \in DOMAIN cty_dict)
              => cty_dict' = cty_dict]_vars

\* C2: all or nothing: after an import_dat that raised, the mapping and the
\* version stamp of the instance are both what they were when it was entered.
C2_AllOrNothing ==
    (pc = "idle" /\ ret.op = "import_dat" /\ ret.exc # "None")
        => (_data = entry.data /\ _version = entry.version)

\* what the format says the record of token t is, under the primary record p
Derived(r, p, t) ==
    /\ r.entity = p.entity
    /\ r.len = p.len
    /\ r.primary_pfx = p.primary_pfx
    /\ r.cq = (IF t.cq >= 0 THEN t.cq ELSE p.cq)
    /\ r.itu = (IF t.itu >= 0 THEN t.itu ELSE p.itu)
    /\ r.lat = (IF t.hasll THEN t.lat ELSE p.lat)
    /\ r.long = (IF t.hasll THEN t.long ELSE p.long)
    /\ r.continent = (IF t.continent # <<>> THEN t.continent ELSE p.continent)
    /\ r.tz = (IF t.hastz THEN (-1) * t.tz ELSE p.tz)

\* C3: override inherits unset fields: the record inserted for a token of the
\* format equals the current primary's record in every field whose group the
\* token lacks, and holds the token's value (tz negated) where it has one.
C3_OverrideInherits ==
    [][\A t \in Tokens :
          (ItemPass /\ IsToken(t) /\ TakenUp)
              => /\ t.prefix \in DOMAIN cty_dict'
                 /\ Derived(cty_dict'[t.prefix], cty_dict[last], t)]_vars

\* a record with one group overriding and the others inherited is in the mapping
C3_Witness ==
    /\ pc # "idle"
    /\ last \in DOMAIN cty_dict
    /\ \E k \in DOMAIN cty_dict :
          /\ k # last
          /\ cty_dict[k].primary_pfx = last
          /\ cty_dict[k].cq # cty_dict[last].cq
          /\ cty_dict[k].itu = cty_dict[last].itu
          /\ cty_dict[k].tz = cty_dict[last].tz

\* the primary prefixes of the header lines read so far
HeaderKeys ==
    {HeaderEntry(CleanLine(cty_dat[i])).key :
        i \in {j \in 1..pos : CleanLine(cty_dat[j]) # <<>>
                              /\ CleanLine(cty_dat[j])[1] \in Upper \cup Lower}}

\* C4: header derives self: throughout the scan, every key a header line
\* introduced maps to a record whose primary_pfx is the key and whose len is
\* the key's length.
C4_HeaderDerivesSelf ==
    pc # "idle"
        => \A k \in HeaderKeys :
              /\ k \in DOMAIN cty_dict
              /\ cty_dict[k].primary_pfx = k
              /\ cty_dict[k].len = Len(k)

\* C5: exact-match flag: a record derived from a token with a leading "=" has
\* exact_match true, one derived from a plain token has it false, and so has
\* the record of a header line.
C5_ExactMatchFlag ==
    [][/\ \A t \in Tokens :
             (ItemPass /\ IsToken(t) /\ TakenUp)
                 => /\ t.prefix \in DOMAIN cty_dict'
                    /\ cty_dict'[t.prefix].exact_match = t.eq
       /\ (pc = "scan" /\ pc' = "scan" /\ last' \in DOMAIN cty_dict'
           /\ cty_dict' # cty_dict)
              => cty_dict'[last'].exact_match = FALSE]_vars

\* a stamp that is a date written with eight digits
IsDate8(v) ==
    /\ v.kind = "str"
    /\ Len(v.s) = 8
    /\ \A i \in 1..8 : v.s[i] \in Digits
    /\ DecVal(SubSeq(v.s, 1, 4)) >= 1
    /\ DecVal(SubSeq(v.s, 5, 6)) \in 1..12
    /\ DecVal(SubSeq(v.s, 7, 8)) \in
          1..DaysIn(DecVal(SubSeq(v.s, 1, 4)), DecVal(SubSeq(v.s, 5, 6)))

\* C6: formatted_version never fails: it gives the stamp as YYYY-MM-DD when
\* the stamp is a valid eight-digit date and 0000-00-00 in every other case,
\* the absent stamp of a loaded file included.
C6_FormattedVersionTotal ==
    ret.op = "formatted_version"
        => /\ ret.exc = "None"
           /\ ret.val = (IF IsDate8(_version)
                         THEN SubSeq(_version.s, 1, 4) \o <<"-">>
                              \o SubSeq(_version.s, 5, 6) \o <<"-">>
                              \o SubSeq(_version.s, 7, 8)
                         ELSE SENTINEL)

\* C7: round trip: loading what the instance has just dumped gives back the
\* same keys, the same records and the same version stamp.
C7_RoundTrip ==
    [][(ret.op = "dump" /\ ret'.op = "load")
          => (_data' = _data /\ _version' = _version)]_vars

\* a line to scan that starts with neither a letter nor white space
Unclassifiable ==
    /\ pc = "scan"
    /\ NextLine # <<>>
    /\ NextLine[1] \notin Upper \cup Lower \cup Whitespace

C9_OverrideKeepsPrimary ==
    [][ItemPass
          => \A k \in DOMAIN cty_dict' :
                (k \notin DOMAIN cty_dict \/ cty_dict'[k] # cty_dict[k])
                    => /\ cty_dict'[k].primary_pfx = last
                       /\ cty_dict'[k].len = Len(last)]_vars

\* a record was derived under P after an override had put P itself in again
C9_Witness ==
    /\ pc # "idle"
    /\ last \in DOMAIN cty_dict
    /\ cty_dict[last].exact_match
    /\ \E k \in DOMAIN cty_dict :
          /\ Len(k) # Len(last)
          /\ cty_dict[k].primary_pfx = last
          /\ cty_dict[k].len = Len(last)
          /\ cty_dict[k].cq # cty_dict[last].cq

\* an item in which the override pattern finds no prefix
Unmatched == pc = "items" /\ \A i \in 1..Len(Head(overrides)) :
                                Head(overrides)[i] \notin PrefixChars

\* C10: an unmatched override token is not fatal: wherever its line stands,
\* the token is dropped, no record is added or changed, and the parse goes on.
C10_UnmatchedNonFatal ==
    [][Unmatched => (pc' # "idle" /\ cty_dict' = cty_dict)]_vars

=============================================================================
